---------------------------- MODULE Spec2Model ----------------------------
(***************************************************************************)
(* A model of geoiq_scraper.py: the Resolver (get_geoiq_url_for_pincode),  *)
(* the Extractor (scrape_geoiq), the gap detection                         *)
(* (get_pincodes_with_missing_data), the merge (update_existing_data) and  *)
(* the gap-fill run (scrape_missing_pincodes).                             *)
(*                                                                         *)
(* Python strings are sequences of one-character strings, so that          *)
(* startswith, split, replace and strip are computed and not assumed.      *)
(* None is the one-element sequence <<"None">>, which is no Python string  *)
(* of the model (its element is not a single character).                   *)
(***************************************************************************)
EXTENDS Integers, Sequences, FiniteSets, TLC

VARIABLES
    pc,                 \* position of the operation under way
    r_pincode,          \* Resolver call: the pincode argument
    r_resp,             \* Resolver call: what requests.post produced
    r_ret,              \* Resolver call: how the call ended
    e_url,              \* Extractor call: the url argument
    e_pincode,          \* Extractor call: the pincode argument
    e_fetch,            \* Extractor call: what requests.get and the parse produced
    e_ret,              \* Extractor call: how the call ended
    existing_csv,       \* the rows of the existing table (the file at existing_csv_path)
    new_data,           \* update_existing_data's new_data / the run's results buffer
    existing_data,      \* update_existing_data's dict: [keys |-> order, row |-> mapping]
    output_csv,         \* the rows written to output_csv_path
    missing_pincodes,   \* scrape_missing_pincodes: the list of codes to re-fetch
    i,                  \* scrape_missing_pincodes: the loop index (1-based)
    url,                \* scrape_missing_pincodes: the Resolver's answer for entry i
    log                 \* history: the calls made by the run, in order

vars == << pc, r_pincode, r_resp, r_ret, e_url, e_pincode, e_fetch, e_ret,
           existing_csv, new_data, existing_data, output_csv,
           missing_pincodes, i, url, log >>

resolveVars == << r_pincode, r_resp, r_ret >>
extractVars == << e_url, e_pincode, e_fetch, e_ret >>
mergeVars   == << existing_csv, new_data, existing_data, output_csv >>
runVars     == << missing_pincodes, i, url, log >>

-----------------------------------------------------------------------------
(* Bounds of the model. *)

MaxCands == 2       \* longest candidate list of a search response
MaxRows  == 2       \* most rows of an existing table
MaxNew   == 2       \* most records of an arbitrary new_data list

-----------------------------------------------------------------------------
(* Python values. *)

None   == << "None" >>
NoKey  == << "<no key>" >>      \* a dict that lacks the key
Idle   == << "<idle>" >>        \* a variable the specification at hand does not use

Return(v) == [tag |-> "return", val |-> v]
Raise(e)  == [tag |-> "raise",  val |-> << e >>]
Pending   == [tag |-> "pending", val |-> Idle]

\* bool(x) of a str-or-None value: None and "" are falsy
Truthy(x) == x # None /\ x # << >>

-----------------------------------------------------------------------------
(* str methods. *)

\* s.startswith(p)
StartsWith(s, p) == Len(p) <= Len(s) /\ SubSeq(s, 1, Len(p)) = p

\* s.find(sep), 1-based; 0 when sep does not occur
RECURSIVE FindFrom(_, _, _)
FindFrom(s, sep, k) ==
    IF k + Len(sep) - 1 > Len(s) THEN 0
    ELSE IF SubSeq(s, k, k + Len(sep) - 1) = sep THEN k
    ELSE FindFrom(s, sep, k + 1)

Find(s, sep) == FindFrom(s, sep, 1)

\* s.split(sep, 1): one element when sep does not occur, else two
Split1(s, sep) ==
    LET k == Find(s, sep)
    IN  IF k = 0 THEN << s >>
        ELSE << SubSeq(s, 1, k - 1), SubSeq(s, k + Len(sep), Len(s)) >>

\* s.replace(c, r) for a single character c
RECURSIVE Replace(_, _, _)
Replace(s, c, r) ==
    IF s = << >> THEN << >>
    ELSE (IF Head(s) = c THEN r ELSE << Head(s) >>) \o Replace(Tail(s), c, r)

IsSpace(c) == c = " "

RECURSIVE LStrip(_)
LStrip(s) == IF s # << >> /\ IsSpace(Head(s)) THEN LStrip(Tail(s)) ELSE s

RECURSIVE RStrip(_)
RStrip(s) ==
    IF s # << >> /\ IsSpace(s[Len(s)]) THEN RStrip(SubSeq(s, 1, Len(s) - 1)) ELSE s

\* s.strip()
Strip(s) == RStrip(LStrip(s))

-----------------------------------------------------------------------------
(* The Resolver: get_geoiq_url_for_pincode. *)

Sep       == << " ", "-", " " >>
UrlPrefix == << "https://geoiq.io/places/" >>

\* s.rfind(sep), 1-based; 0 when sep does not occur
RECURSIVE RFindFrom(_, _, _)
RFindFrom(s, sep, k) ==
    IF k < 1 THEN 0
    ELSE IF SubSeq(s, k, k + Len(sep) - 1) = sep THEN k
    ELSE RFindFrom(s, sep, k - 1)

\* lines 26-29 with name.rsplit(" - ", 1): the split at the last separator
BuildUrlRSplit(place) ==
    LET name == place.name
        k    == RFindFrom(name, Sep, Len(name) - Len(Sep) + 1)
    IN  IF k = 0 THEN Raise("ValueError")
        ELSE LET pincode_part == SubSeq(name, 1, k - 1)
                 place_part   == Replace(Replace(SubSeq(name, k + Len(Sep), Len(name)),
                                                 ",", << >>), " ", << "-" >>)
             IN  IF place.id = NoKey THEN Raise("KeyError")
                 ELSE Return(UrlPrefix \o pincode_part \o << "-", "-", "-" >>
                             \o place_part \o << "/" >> \o place.id)

\* lines 26-29: the URL of the chosen candidate; the unpacking of line 27 raises
\* ValueError when split gives one part, place['id'] raises KeyError without the key
BuildUrl(place) ==
    LET name  == place.name
        parts == Split1(name, Sep)
    IN  IF Len(parts) # 2 THEN Raise("ValueError")
        ELSE LET pincode_part == parts[1]
                 place_part   == Replace(Replace(parts[2], ",", << >>), " ", << "-" >>)
             IN  IF place.id = NoKey THEN Raise("KeyError")
                 ELSE Return(UrlPrefix \o pincode_part \o << "-", "-", "-" >>
                             \o place_part \o << "/" >> \o place.id)

\* line 24, continuing to the next candidate past a match whose name has no separator
RECURSIVE ScanSkippingNoSep(_, _, _)
ScanSkippingNoSep(pincode, body, k) ==
    IF k > Len(body) THEN Return(None)
    ELSE IF body[k].name = NoKey THEN Raise("KeyError")
    ELSE IF StartsWith(body[k].name, pincode) /\ Find(body[k].name, Sep) # 0
         THEN BuildUrl(body[k])
    ELSE ScanSkippingNoSep(pincode, body, k + 1)

\* lines 23-30: the loop over data["body"] from candidate k on
RECURSIVE Scan(_, _, _)
Scan(pincode, body, k) ==
    IF k > Len(body) THEN Return(None)
    ELSE IF body[k].name = NoKey THEN Raise("KeyError")
    ELSE IF StartsWith(body[k].name, pincode) THEN BuildUrl(body[k])
    ELSE Scan(pincode, body, k + 1)

\* lines 18-30: the body of the try block
ResolveTry(pincode, resp) ==
    CASE resp.kind = "conn_error" -> Raise("ConnectionError")      \* line 18
      [] resp.kind = "http_error" -> Raise("HTTPError")            \* line 19
      [] resp.kind = "bad_json"   -> Raise("JSONDecodeError")      \* line 20
      [] resp.kind = "not_object" -> Raise("AttributeError")       \* line 23: data.get
      [] resp.kind = "no_body"    -> Return(None)                  \* line 23: default []
      [] OTHER                    -> Scan(pincode, resp.body, 1)

\* lines 31-33 with the handler narrowed to the request's own errors
ResolveCatchRequestOnly(pincode, resp) ==
    LET r == ResolveTry(pincode, resp)
    IN  IF r.tag = "raise" /\ r.val \in { << "ConnectionError" >>, << "HTTPError" >> }
        THEN Return(None) ELSE r

\* lines 17-33: except Exception turns every raise into return None
get_geoiq_url_for_pincode(pincode, resp) ==
    LET r == ResolveTry(pincode, resp)
    IN  IF r.tag = "raise" THEN Return(None) ELSE r

-----------------------------------------------------------------------------
(* Inputs of the Resolver. *)

P12 == << "1", "2" >>
P13 == << "1", "3" >>
Pincodes == { P12, P13 }

NameFull   == << "1", "2", " ", "-", " ", "M", " ", "K", ",", " ", "H" >>  \* "12 - M K, H"
NameBare   == << "1", "2" >>                                              \* "12"
NameTwoSep == << "1", "2", " ", "-", " ", "A", " ", "-", " ", "B" >>      \* "12 - A - B"
NameOther  == << "1", "3", " ", "-", " ", "C" >>                          \* "13 - C"
NameLonger == << "1", "2", "5", " ", "-", " ", "D" >>                     \* "125 - D"
NameDash   == << "1", "3", "-", "C" >>                                    \* "13-C"
Names == { NameFull, NameBare, NameTwoSep, NameOther, NameLonger, NameDash }

Ids == { << "7" >>, << "4", "2" >> }

Candidates == [name : Names \cup { NoKey }, id : Ids \cup { NoKey }]

RECURSIVE SeqsUpTo(_, _)
SeqsUpTo(S, n) ==
    IF n = 0 THEN { << >> }
    ELSE LET shorter == SeqsUpTo(S, n - 1)
         IN  shorter \cup { Append(s, x) : s \in { t \in shorter : Len(t) = n - 1 }, x \in S }

FailKinds == { "conn_error", "http_error", "bad_json", "not_object", "no_body" }

Responses ==
    { [kind |-> k, body |-> << >>] : k \in FailKinds }
    \cup { [kind |-> "ok", body |-> b] : b \in SeqsUpTo(Candidates, MaxCands) }

-----------------------------------------------------------------------------
(* Specification of one Resolver call. *)

IdleResolve == r_pincode = Idle /\ r_resp = Idle /\ r_ret = Pending
IdleExtract == e_url = Idle /\ e_pincode = Idle /\ e_fetch = Idle /\ e_ret = Pending
IdleMerge   == existing_csv = << >> /\ new_data = << >> /\ existing_data = Idle
               /\ output_csv = Idle
IdleRun     == missing_pincodes = << >> /\ i = 0 /\ url = None /\ log = << >>

InitResolve ==
    /\ pc = "call"
    /\ r_pincode \in Pincodes
    /\ r_resp \in Responses
    /\ r_ret = Pending
    /\ IdleExtract /\ IdleMerge /\ IdleRun

ResolveCall ==
    /\ pc = "call"
    /\ r_ret' = get_geoiq_url_for_pincode(r_pincode, r_resp)
    /\ pc' = "returned"
    /\ UNCHANGED << r_pincode, r_resp, extractVars, mergeVars, runVars >>

NextResolve == ResolveCall

SpecResolve == InitResolve /\ [][NextResolve]_vars

-----------------------------------------------------------------------------
(* The Extractor: scrape_geoiq. *)

\* a Record: one row of the table, the dict scrape_geoiq returns
Record(u, p, place, pop, area, male, female) ==
    [url |-> u, pincode |-> p, place_name |-> place, population |-> pop,
     area_km2 |-> area, male_population |-> male, female_population |-> female]

\* lines 59, 63, 67, 71: m.group(1) if m else "", for the match m of re.search
GroupOrBlank(m) == IF m = None THEN << >> ELSE m

\* lines 38-73: the body of the try block. fetch.kind says where it fails, if it
\* does; fetch.doc is the parsed page: its first h1's text (None without an h1) and
\* the first match of each of the four patterns in its text (None without a match)
ScrapeTry(u, pincode, fetch) ==
    CASE fetch.kind = "conn_error"  -> Raise("ConnectionError")     \* line 38
      [] fetch.kind = "http_error"  -> Raise("HTTPError")           \* line 39
      [] fetch.kind = "parse_error" -> Raise("ParseError")          \* lines 40-71
      [] OTHER ->
           LET doc == fetch.doc
               title_text == IF doc.h1 # None THEN Strip(doc.h1) ELSE << >>
           IN  Return(Record(u, pincode, title_text,
                             GroupOrBlank(doc.population_match),
                             GroupOrBlank(doc.area_match),
                             GroupOrBlank(doc.male_match),
                             GroupOrBlank(doc.female_match)))

\* lines 74-79 returning, on failure, the blank record of lines 158-161 (url blank)
ScrapeBlankUrlOnFailure(u, pincode, fetch) ==
    LET r == ScrapeTry(u, pincode, fetch)
    IN  IF r.tag = "raise"
        THEN Return(Record(<< >>, pincode, << >>, << >>, << >>, << >>, << >>))
        ELSE r

\* lines 35-79: except Exception returns the record with url and pincode only
scrape_geoiq(u, pincode, fetch) ==
    LET r == ScrapeTry(u, pincode, fetch)
    IN  IF r.tag = "raise"
        THEN Return(Record(u, pincode, << >>, << >>, << >>, << >>, << >>))
        ELSE r

(* Inputs of the Extractor. *)

Url12 == BuildUrl([name |-> NameFull,  id |-> << "7" >>]).val
Url13 == BuildUrl([name |-> NameOther, id |-> << "4", "2" >>]).val
Urls  == { Url12, Url13 }

Docs ==
    [h1               : { None, << >>, << " ", "M", " ", "K", " " >> },
     population_match : { None, << "4", "5" >> },
     area_match       : { None, << "2", ".", "5" >> },
     male_match       : { None, << "2", "3" >> },
     female_match     : { None, << "2", "2" >> }]

FetchKinds == { "conn_error", "http_error", "parse_error", "ok" }

Fetches == [kind : FetchKinds, doc : Docs]

(* Specification of one Extractor call. *)

InitExtract ==
    /\ pc = "call"
    /\ e_url \in Urls
    /\ e_pincode \in Pincodes
    /\ e_fetch \in Fetches
    /\ e_ret = Pending
    /\ IdleResolve /\ IdleMerge /\ IdleRun

ExtractCall ==
    /\ pc = "call"
    /\ e_ret' = scrape_geoiq(e_url, e_pincode, e_fetch)
    /\ pc' = "returned"
    /\ UNCHANGED << e_url, e_pincode, e_fetch, resolveVars, mergeVars, runVars >>

NextExtract == ExtractCall

SpecExtract == InitExtract /\ [][NextExtract]_vars

-----------------------------------------------------------------------------
(* Gap detection and merge: get_pincodes_with_missing_data, update_existing_data. *)

\* "not v.strip()"
Blank(v) == Strip(v) = << >>

\* line 94 with place_name counted among the key fields
RowIsMissingAnyLabel(row) ==
    \/ Blank(row.population) \/ Blank(row.area_km2)
    \/ Blank(row.male_population) \/ Blank(row.female_population)
    \/ Blank(row.place_name)

\* lines 89-94: any of the four key fields is missing
RowIsMissing(row) ==
    \/ Blank(row.population) \/ Blank(row.area_km2)
    \/ Blank(row.male_population) \/ Blank(row.female_population)

\* lines 83-97: the pincode of every row with a missing field, in file order
RECURSIVE get_pincodes_with_missing_data(_)
get_pincodes_with_missing_data(rows) ==
    IF rows = << >> THEN << >>
    ELSE (IF RowIsMissing(Head(rows)) THEN << Head(rows).pincode >> ELSE << >>)
         \o get_pincodes_with_missing_data(Tail(rows))

\* a Python dict keyed by pincode: keys in insertion order, and the value of each
EmptyDict == [keys |-> << >>, row |-> << >>]

HasKey(d, k) == \E n \in 1..Len(d.keys) : d.keys[n] = k

\* d[k], for a key of d
DictGet(d, k) == d.row[CHOOSE n \in 1..Len(d.keys) : d.keys[n] = k]

\* d[k] = v: a key already there keeps its place and takes the new value
DictSet(d, k, v) ==
    IF HasKey(d, k)
    THEN [d EXCEPT !.row[CHOOSE n \in 1..Len(d.keys) : d.keys[n] = k] = v]
    ELSE [keys |-> Append(d.keys, k), row |-> Append(d.row, v)]

\* lines 102-106: existing_data[row['pincode']] = row, for every row of the file
RECURSIVE ReadExisting(_, _)
ReadExisting(rows, d) ==
    IF rows = << >> THEN d
    ELSE ReadExisting(Tail(rows), DictSet(d, Head(rows).pincode, Head(rows)))

\* line 114 with the last of the four key fields left out
MergeFieldsWithoutFemale == << "population", "area_km2", "male_population",
                              "place_name", "url" >>

\* line 114
MergeFields == << "population", "area_km2", "male_population", "female_population",
                 "place_name", "url" >>

\* lines 115-116 without the test of the existing value: every non-blank new value lands
RECURSIVE MergeRowOverwriting(_, _, _)
MergeRowOverwriting(existing_row, new_row, n) ==
    IF n > Len(MergeFields) THEN existing_row
    ELSE LET field == MergeFields[n]
         IN  MergeRowOverwriting(
                 IF ~Blank(new_row[field])
                 THEN [existing_row EXCEPT ![field] = new_row[field]]
                 ELSE existing_row,
                 new_row, n + 1)

\* lines 114-116: the fields from the n-th on
RECURSIVE MergeRow(_, _, _)
MergeRow(existing_row, new_row, n) ==
    IF n > Len(MergeFields) THEN existing_row
    ELSE LET field == MergeFields[n]
         IN  MergeRow(
                 IF Blank(existing_row[field]) /\ ~Blank(new_row[field])
                 THEN [existing_row EXCEPT ![field] = new_row[field]]
                 ELSE existing_row,
                 new_row, n + 1)

\* lines 109-116 adding the record of a pincode the table does not hold
RECURSIVE MergeAllAdding(_, _)
MergeAllAdding(d, rows) ==
    IF rows = << >> THEN d
    ELSE LET new_row == Head(rows)
             pincode == new_row.pincode
         IN  MergeAllAdding(
                 IF HasKey(d, pincode)
                 THEN DictSet(d, pincode, MergeRow(DictGet(d, pincode), new_row, 1))
                 ELSE DictSet(d, pincode, new_row),
                 Tail(rows))

\* lines 109-116: the loop over new_data
RECURSIVE MergeAll(_, _)
MergeAll(d, rows) ==
    IF rows = << >> THEN d
    ELSE LET new_row == Head(rows)
             pincode == new_row.pincode
         IN  MergeAll(
                 IF HasKey(d, pincode)
                 THEN DictSet(d, pincode, MergeRow(DictGet(d, pincode), new_row, 1))
                 ELSE d,
                 Tail(rows))

\* lines 119-126: the header, then existing_data.values() in the dict's order
WriteRows(d) == d.row

\* lines 99-128: the dict after the merge, the rows written, the count returned
update_existing_data(existing_rows, new_rows) ==
    LET loaded == ReadExisting(existing_rows, EmptyDict)
        merged == MergeAll(loaded, new_rows)
    IN  [existing_data |-> merged, written |-> WriteRows(merged),
         ret |-> Len(merged.keys)]

(* Inputs of the merge: rows of an existing table and newly fetched records. *)

P99 == << "9", "9" >>

\* every field populated
RowComplete(p, u) ==
    Record(u, p, << "M" >>, << "4", "5" >>, << "2", ".", "5" >>, << "2", "3" >>,
           << "2", "2" >>)
\* every field but the pincode blank
RowBlank(p) == Record(<< >>, p, << >>, << >>, << >>, << >>, << >>)
\* population of white space only, male_population empty, url empty
RowPartial(p) ==
    Record(<< >>, p, << "M" >>, << " " >>, << "2", ".", "5" >>, << >>, << "2", "2" >>)
\* the four key fields populated, url and place_name blank
RowNoLabel(p) ==
    Record(<< >>, p, << >>, << "4", "5" >>, << "2", ".", "5" >>, << "2", "3" >>,
           << "2", "2" >>)

ExistingRows ==
    { RowComplete(P12, Url12), RowBlank(P12), RowPartial(P12),
      RowComplete(P13, Url13), RowBlank(P13), RowPartial(P13), RowNoLabel(P13) }

\* a record of a successful fetch, every field found
NewFull(p, u) ==
    Record(u, p, << "Z" >>, << "9", "9" >>, << "9", ".", "9" >>, << "5", "0" >>,
           << "4", "9" >>)
\* a record of a failed fetch (lines 76-79)
NewSoftFailure(p, u) == Record(u, p, << >>, << >>, << >>, << >>, << >>)
\* a record with some fields, one of them white space
NewPartial(p, u) ==
    Record(u, p, << " " >>, << "7", "7" >>, << " " >>, << "5", "1" >>, << >>)

NewRows ==
    { NewFull(P12, Url12), NewSoftFailure(P12, Url12), NewPartial(P12, Url13),
      NewFull(P99, Url13), NewSoftFailure(P99, Url13), NewPartial(P99, Url12) }

(* Specification of one update_existing_data call on arbitrary arguments. *)

InitMerge ==
    /\ pc = "call"
    /\ existing_csv \in SeqsUpTo(ExistingRows, MaxRows)
    /\ new_data \in SeqsUpTo(NewRows, MaxNew)
    /\ existing_data = Idle
    /\ output_csv = Idle
    /\ IdleResolve /\ IdleExtract /\ IdleRun

MergeCall ==
    /\ pc = "call"
    /\ LET r == update_existing_data(existing_csv, new_data)
       IN  /\ existing_data' = r.existing_data
           /\ output_csv' = r.written
    /\ pc' = "returned"
    /\ UNCHANGED << existing_csv, new_data, resolveVars, extractVars, runVars >>

NextMerge == MergeCall

SpecMerge == InitMerge /\ [][NextMerge]_vars

-----------------------------------------------------------------------------
(* The gap-fill run: scrape_missing_pincodes. *)

\* what the search endpoint may answer during a run
RunResponses ==
    { [kind |-> "conn_error", body |-> << >>],
      [kind |-> "ok", body |-> << >>],
      [kind |-> "ok", body |-> << [name |-> NameFull, id |-> << "7" >>] >>],
      [kind |-> "ok", body |-> << [name |-> NameOther, id |-> << "4", "2" >>] >>],
      [kind |-> "ok", body |-> << [name |-> NameBare, id |-> << "7" >>],
                                  [name |-> NameFull, id |-> << "7" >>] >>] }

FullDoc ==
    [h1 |-> << "Z" >>, population_match |-> << "9", "9" >>,
     area_match |-> << "9", ".", "9" >>, male_match |-> << "5", "0" >>,
     female_match |-> << "4", "9" >>]
PartialDoc ==
    [h1 |-> None, population_match |-> << "7", "7" >>, area_match |-> None,
     male_match |-> None, female_match |-> None]

\* what the fetch of a detail page may give during a run
RunFetches ==
    { [kind |-> "conn_error", doc |-> FullDoc],
      [kind |-> "ok", doc |-> FullDoc],
      [kind |-> "ok", doc |-> PartialDoc] }

\* history: one call of the run, for entry idx of missing_pincodes
Event(op, idx, ok) == [op |-> op, idx |-> idx, ok |-> ok]

\* line 145: the position after entry n of the loop
AfterEntry(n) == IF n + 1 > Len(missing_pincodes) THEN "update" ELSE "resolve"

Init ==
    /\ pc = "start"
    /\ existing_csv \in SeqsUpTo(ExistingRows, MaxRows)
    /\ new_data = << >>
    /\ existing_data = Idle
    /\ output_csv = Idle
    /\ IdleRun /\ IdleResolve /\ IdleExtract

\* lines 133-143: the codes to re-fetch; the run ends here when there is none
Start ==
    /\ pc = "start"
    /\ missing_pincodes' = get_pincodes_with_missing_data(existing_csv)
    /\ pc' = IF missing_pincodes' = << >> THEN "done" ELSE "resolve"
    /\ i' = IF missing_pincodes' = << >> THEN 0 ELSE 1
    /\ new_data' = << >>
    /\ UNCHANGED << existing_csv, existing_data, output_csv, url, log,
                    resolveVars, extractVars >>

\* lines 148-150: the Resolver's answer for entry i and the branch on it
Resolve ==
    /\ pc = "resolve"
    /\ \E resp \in RunResponses :
          url' = get_geoiq_url_for_pincode(missing_pincodes[i], resp).val
    /\ log' = Append(log, Event("resolve", i, Truthy(url')))
    /\ pc' = IF Truthy(url') THEN "extract" ELSE "blank"
    /\ UNCHANGED << mergeVars, missing_pincodes, i, resolveVars, extractVars >>

\* lines 151-155 sleeping only after a fetch that succeeded
ExtractDelayingOnSuccessOnly ==
    /\ pc = "extract"
    /\ \E fetch \in RunFetches :
          /\ new_data' = Append(new_data, scrape_geoiq(url, missing_pincodes[i], fetch).val)
          /\ log' = Append(log, Event("extract", i, fetch.kind = "ok"))
          /\ pc' = IF fetch.kind = "ok" THEN "sleep" ELSE AfterEntry(i)
          /\ i' = IF fetch.kind = "ok" THEN i ELSE i + 1
    /\ UNCHANGED << existing_csv, existing_data, output_csv, missing_pincodes, url,
                    resolveVars, extractVars >>

\* lines 151-152: the Extractor's record for entry i, appended to results
Extract ==
    /\ pc = "extract"
    /\ \E fetch \in RunFetches :
          /\ new_data' = Append(new_data, scrape_geoiq(url, missing_pincodes[i], fetch).val)
          /\ log' = Append(log, Event("extract", i, fetch.kind = "ok"))
    /\ pc' = "sleep"
    /\ UNCHANGED << existing_csv, existing_data, output_csv, missing_pincodes, i, url,
                    resolveVars, extractVars >>

\* line 155: time.sleep(1), then the next entry
Sleep ==
    /\ pc = "sleep"
    /\ log' = Append(log, Event("sleep", i, TRUE))
    /\ i' = i + 1
    /\ pc' = AfterEntry(i)
    /\ UNCHANGED << mergeVars, missing_pincodes, url, resolveVars, extractVars >>

\* lines 156-161: the blank record of a code without URL, then the next entry
AppendBlank ==
    /\ pc = "blank"
    /\ new_data' = Append(new_data, Record(<< >>, missing_pincodes[i],
                                           << >>, << >>, << >>, << >>, << >>))
    /\ log' = Append(log, Event("blank", i, TRUE))
    /\ i' = i + 1
    /\ pc' = AfterEntry(i)
    /\ UNCHANGED << existing_csv, existing_data, output_csv, missing_pincodes, url,
                    resolveVars, extractVars >>

\* lines 169-176: the merge of results into the table, written to output_csv_path
Update ==
    /\ pc = "update"
    /\ LET r == update_existing_data(existing_csv, new_data)
       IN  /\ existing_data' = IF new_data # << >> THEN r.existing_data ELSE existing_data
           /\ output_csv' = IF new_data # << >> THEN r.written ELSE output_csv
    /\ pc' = "done"
    /\ UNCHANGED << existing_csv, new_data, runVars, resolveVars, extractVars >>

Next == Start \/ Resolve \/ Extract \/ Sleep \/ AppendBlank \/ Update

Spec == Init /\ [][Next]_vars

-----------------------------------------------------------------------------
(* Claims about the Resolver, under SpecResolve. *)

Returned == pc = "returned"

\* the response is a candidate list as the search endpoint documents it:
\* every candidate carries a name and an id
WellFormed ==
    /\ r_resp.kind = "ok"
    /\ \A k \in 1..Len(r_resp.body) :
          r_resp.body[k].name # NoKey /\ r_resp.body[k].id # NoKey

\* the index of the first candidate whose name starts with the pincode, 0 if none
FirstMatch ==
    LET M == { k \in 1..Len(r_resp.body) : StartsWith(r_resp.body[k].name, r_pincode) }
    IN  IF M = { } THEN 0 ELSE CHOOSE k \in M : \A m \in M : k <= m

\* name holds " - " at position k
SepAt(name, k) == k + 2 <= Len(name) /\ SubSeq(name, k, k + 2) = << " ", "-", " " >>

HasSep(name) == \E k \in 1..Len(name) : SepAt(name, k)

\* the place part as the URL carries it: commas dropped, then spaces turned to hyphens
Hyphenated(s) ==
    LET kept == SelectSeq(s, LAMBDA c : c # ",")
    IN  [k \in 1..Len(kept) |-> IF kept[k] = " " THEN "-" ELSE kept[k]]

\* url is https://geoiq.io/places/<code>---<place>/<id> for the split of the
\* candidate's name at its first " - "
IsUrlOf(u, cand) ==
    \E k \in 1..Len(cand.name) :
        /\ SepAt(cand.name, k)
        /\ \A j \in 1..(k - 1) : ~SepAt(cand.name, j)
        /\ u = << "https://geoiq.io/places/" >> \o SubSeq(cand.name, 1, k - 1)
                \o << "-", "-", "-" >>
                \o Hyphenated(SubSeq(cand.name, k + 3, Len(cand.name)))
                \o << "/" >> \o cand.id

\* C3 as claimed: the first candidate whose name starts with the pincode is selected
\* and a URL is built from its name and id; None only when no candidate matches.
C3_Claimed ==
    (Returned /\ WellFormed) =>
        /\ r_ret.tag = "return"
        /\ (FirstMatch = 0 => r_ret.val = None)
        /\ (FirstMatch # 0 =>
              /\ r_ret.val # None
              /\ StartsWith(r_ret.val, << "https://geoiq.io/places/" >>)
              /\ r_ret.val[Len(r_ret.val)] =
                    r_resp.body[FirstMatch].id[Len(r_resp.body[FirstMatch].id)])

\* C3 amended: the result is decided by the first candidate, in list order, whose
\* name starts with the pincode: its URL when its name holds " - ", None when it
\* does not (no later candidate is tried); None when no candidate matches.
C3_FirstMatchDecides ==
    (Returned /\ WellFormed) =>
        /\ r_ret.tag = "return"
        /\ (FirstMatch = 0 => r_ret.val = None)
        /\ (FirstMatch # 0 =>
              IF HasSep(r_resp.body[FirstMatch].name)
              THEN IsUrlOf(r_ret.val, r_resp.body[FirstMatch])
              ELSE r_ret.val = None)

\* a later candidate matches too, and the first one decided
C3_Witness ==
    /\ Returned /\ WellFormed
    /\ FirstMatch # 0
    /\ \E k \in (FirstMatch + 1)..Len(r_resp.body) :
          /\ StartsWith(r_resp.body[k].name, r_pincode)
          /\ r_resp.body[k] # r_resp.body[FirstMatch]
    /\ IsUrlOf(r_ret.val, r_resp.body[FirstMatch])

\* C4: whatever the search request produced (a network error, a non-2xx status, a
\* body that is no JSON or no object, a candidate without name or id), the call
\* returns, and returns None on every failure and a URL otherwise.
C4_NeverRaises ==
    Returned =>
        /\ r_ret.tag = "return"
        /\ (r_ret.val = None \/ StartsWith(r_ret.val, << "https://geoiq.io/places/" >>))
        /\ (ResolveTry(r_pincode, r_resp).tag = "raise" => r_ret.val = None)
        /\ (r_resp.kind # "ok" => r_ret.val = None)

\* a candidate without a name ahead of a good match: the KeyError ends as None
C4_Witness ==
    /\ Returned
    /\ r_resp.kind = "ok"
    /\ Len(r_resp.body) >= 2
    /\ r_resp.body[1].name = NoKey
    /\ r_resp.body[2].name # NoKey /\ r_resp.body[2].id # NoKey
    /\ StartsWith(r_resp.body[2].name, r_pincode) /\ HasSep(r_resp.body[2].name)
    /\ r_ret = Return(None)

\* C8: when the first candidate whose name starts with the pincode has no " - ", the
\* result is None even if a later candidate matches and has one; when it has one, the
\* name is split at the first " - " only and the URL is
\* https://geoiq.io/places/<code_part>---<place_part, commas removed, spaces to hyphens>/<id>.
C8_SeparatorRule ==
    (Returned /\ WellFormed /\ FirstMatch # 0) =>
        LET cand == r_resp.body[FirstMatch]
            cut  == IF HasSep(cand.name)
                    THEN CHOOSE k \in 1..Len(cand.name) :
                            /\ SepAt(cand.name, k)
                            /\ \A j \in 1..(k - 1) : ~SepAt(cand.name, j)
                    ELSE 0
        IN  /\ (cut = 0 => r_ret = Return(None))
            /\ (cut # 0 =>
                  r_ret = Return(<< "https://geoiq.io/places/" >>
                                 \o SubSeq(cand.name, 1, cut - 1) \o << "-", "-", "-" >>
                                 \o Hyphenated(SubSeq(cand.name, cut + 3, Len(cand.name)))
                                 \o << "/" >> \o cand.id))

\* the first match has no separator, a later match has one, and the result is None
C8_Witness ==
    /\ Returned /\ WellFormed
    /\ FirstMatch # 0
    /\ ~HasSep(r_resp.body[FirstMatch].name)
    /\ \E k \in (FirstMatch + 1)..Len(r_resp.body) :
          StartsWith(r_resp.body[k].name, r_pincode) /\ HasSep(r_resp.body[k].name)
    /\ r_ret = Return(None)

-----------------------------------------------------------------------------
(* Claims about the Extractor, under SpecExtract. *)

\* C5: when the fetch of the detail page or its parsing fails in any way, scrape_geoiq
\* does not raise and returns a record whose url and pincode are the arguments and whose
\* place_name, population, area_km2, male_population and female_population are blank.
C5_SoftFailure ==
    (pc = "returned" /\ e_fetch.kind # "ok") =>
        /\ e_ret.tag = "return"
        /\ e_ret.val.url = e_url
        /\ e_ret.val.pincode = e_pincode
        /\ \A f \in { "place_name", "population", "area_km2",
                       "male_population", "female_population" } : e_ret.val[f] = << >>
        /\ DOMAIN e_ret.val = { "url", "pincode", "place_name", "population", "area_km2",
                                "male_population", "female_population" }

\* the page had a heading and all four matches, the parse failed, the record is blank
C5_Witness ==
    /\ pc = "returned"
    /\ e_fetch.kind = "parse_error"
    /\ e_fetch.doc.h1 # None
    /\ e_fetch.doc.population_match # None /\ e_fetch.doc.female_match # None
    /\ e_ret.tag = "return"
    /\ e_ret.val.url = e_url /\ e_ret.val.population = << >>

-----------------------------------------------------------------------------
(* Claims about update_existing_data, under SpecMerge. *)

\* a value is blank when it is empty or holds white space only
IsBlankText(v) == \A k \in 1..Len(v) : v[k] = " "

KeyFields == { "population", "area_km2", "male_population", "female_population" }
RecordFields == KeyFields \cup { "url", "place_name" }

\* the rows of the existing table that update_existing_data holds after reading it:
\* for each pincode the last row of the file with that pincode
Stored == { n \in 1..Len(existing_csv) :
              \A m \in (n + 1)..Len(existing_csv) :
                  existing_csv[m].pincode # existing_csv[n].pincode }

\* the rows written for pincode p
Written(p) == { m \in 1..Len(output_csv) : output_csv[m].pincode = p }

\* the new records for pincode p
Fetched(p) == { j \in 1..Len(new_data) : new_data[j].pincode = p }

\* C1: every field (url, place_name, population, area_km2, male_population,
\* female_population) of a stored record that is non-blank before the merge holds the
\* same value after merging any sequence of new records, several for one pincode included.
C1_PopulatedKept ==
    pc = "returned" =>
        \A n \in Stored : \A f \in RecordFields :
            ~IsBlankText(existing_csv[n][f]) =>
                /\ Written(existing_csv[n].pincode) # { }
                /\ \A m \in Written(existing_csv[n].pincode) :
                      output_csv[m][f] = existing_csv[n][f]

\* two new records for one pincode, both with a population, met a stored record with
\* an area and no population: the area stayed, the population was filled
C1_Witness ==
    /\ pc = "returned"
    /\ \E n \in Stored :
          /\ ~IsBlankText(existing_csv[n].area_km2)
          /\ IsBlankText(existing_csv[n].population)
          /\ \E j, k \in Fetched(existing_csv[n].pincode) :
                /\ j < k
                /\ ~IsBlankText(new_data[j].area_km2)
                /\ new_data[j].area_km2 # existing_csv[n].area_km2
                /\ ~IsBlankText(new_data[k].population)
                /\ new_data[k].population # new_data[j].population
          /\ \E m \in Written(existing_csv[n].pincode) :
                /\ output_csv[m].area_km2 = existing_csv[n].area_km2
                /\ ~IsBlankText(output_csv[m].population)

\* C2: a stored record whose four key fields are all blank, merged with a new record
\* for its pincode whose four key fields are all non-blank, carries the new record's
\* value in each of the four. (The stored record is still blank when new_data[j] is
\* merged if every earlier new record for the pincode is blank in the four fields.)
C2_BlankTakesNew ==
    pc = "returned" =>
        \A n \in Stored : \A j \in Fetched(existing_csv[n].pincode) :
            ( /\ \A f \in KeyFields : IsBlankText(existing_csv[n][f])
              /\ \A f \in KeyFields : ~IsBlankText(new_data[j][f])
              /\ \A k \in Fetched(existing_csv[n].pincode) :
                    k < j => \A f \in KeyFields : IsBlankText(new_data[k][f]) )
            => /\ Written(existing_csv[n].pincode) # { }
               /\ \A m \in Written(existing_csv[n].pincode) : \A f \in KeyFields :
                     output_csv[m][f] = new_data[j][f]

\* a blank stored record met a fully populated new record and took its population
C2_Witness ==
    /\ pc = "returned"
    /\ \E n \in Stored : \E j \in Fetched(existing_csv[n].pincode) :
          /\ \A f \in KeyFields : existing_csv[n][f] = << >>
          /\ \A f \in KeyFields : ~IsBlankText(new_data[j][f])
          /\ \A k \in Fetched(existing_csv[n].pincode) : k >= j
          /\ \E m \in Written(existing_csv[n].pincode) :
                output_csv[m].female_population = new_data[j].female_population

\* C10 as claimed: the table written has one row per row of the existing table, with
\* the same pincodes, and a row whose pincode has no new record is written unchanged.
C10_Claimed ==
    pc = "returned" =>
        /\ Len(output_csv) = Len(existing_csv)
        /\ \A n \in 1..Len(existing_csv) :
              /\ output_csv[n].pincode = existing_csv[n].pincode
              /\ (Fetched(existing_csv[n].pincode) = { } => output_csv[n] = existing_csv[n])

\* the place of pincode p's first row in the existing table
FirstRow(p) == CHOOSE n \in 1..Len(existing_csv) :
                  /\ existing_csv[n].pincode = p
                  /\ \A m \in 1..(n - 1) : existing_csv[m].pincode # p

\* C10 amended: the table written has exactly one row per distinct pincode of the
\* existing table, in the order of the pincodes' first rows; no pincode is added for a
\* new record whose pincode the table lacks; no pincode is dropped; a pincode with no
\* new record is written with its last existing row, unchanged.
C10_OneRowPerPincode ==
    pc = "returned" =>
        /\ \A m \in 1..Len(output_csv) :
              \E n \in 1..Len(existing_csv) : existing_csv[n].pincode = output_csv[m].pincode
        /\ \A n \in 1..Len(existing_csv) :
              Cardinality(Written(existing_csv[n].pincode)) = 1
        /\ \A m1, m2 \in 1..Len(output_csv) :
              m1 < m2 => FirstRow(output_csv[m1].pincode) < FirstRow(output_csv[m2].pincode)
        /\ \A n \in Stored :
              Fetched(existing_csv[n].pincode) = { } =>
                  \A m \in Written(existing_csv[n].pincode) : output_csv[m] = existing_csv[n]
        /\ existing_data.keys = [m \in 1..Len(output_csv) |-> output_csv[m].pincode]

\* a table of two pincodes met a record for one of them and a record for a pincode it
\* lacks: two rows were written, the untouched pincode's row as it was
C10_Witness ==
    /\ pc = "returned"
    /\ Len(existing_csv) >= 2
    /\ \E j \in 1..Len(new_data) :
          \A n \in 1..Len(existing_csv) : existing_csv[n].pincode # new_data[j].pincode
    /\ \E j \in 1..Len(new_data) : \E n \in 1..Len(existing_csv) :
          /\ existing_csv[n].pincode = new_data[j].pincode
          /\ output_csv[n] # existing_csv[n]
    /\ \E n \in 1..Len(existing_csv) :
          Fetched(existing_csv[n].pincode) = { } /\ output_csv[n] = existing_csv[n]
    /\ Len(output_csv) = Len(existing_csv)

-----------------------------------------------------------------------------
(* Claims about the gap-fill run, under Spec. *)

\* the places in the log of the calls op made for entry j of missing_pincodes
Calls(op, j) == { k \in 1..Len(log) : log[k].op = op /\ log[k].idx = j }

\* the places in the log of the calls op made for postal code p
CallsFor(op, p) ==
    { k \in 1..Len(log) : log[k].op = op /\ missing_pincodes[log[k].idx] = p }

\* entry j of missing_pincodes has been fully processed
EntryDone(j) == j < i \/ pc \in { "update", "done" }

LoopOver == pc \in { "update", "done" }

TablePincodes == { existing_csv[n].pincode : n \in 1..Len(existing_csv) }

\* some row of the table for postal code p has one of the four key fields blank
HasGap(p) ==
    \E n \in 1..Len(existing_csv) :
        /\ existing_csv[n].pincode = p
        /\ \E f \in KeyFields : IsBlankText(existing_csv[n][f])

\* C6: a postal code of the table is run through the Resolver (and, when resolved, the
\* Extractor) if and only if a stored record of it has one of population, area_km2,
\* male_population, female_population blank; a record with all four populated causes
\* no fetch, even when its url or place_name is blank.
C6_RefetchedIffGap ==
    /\ pc # "start" =>
          /\ \A k \in 1..Len(missing_pincodes) : HasGap(missing_pincodes[k])
          /\ \A p \in TablePincodes :
                HasGap(p) => \E k \in 1..Len(missing_pincodes) : missing_pincodes[k] = p
          /\ Len(missing_pincodes) =
                Cardinality({ n \in 1..Len(existing_csv) :
                                \E f \in KeyFields : IsBlankText(existing_csv[n][f]) })
    /\ \A k \in 1..Len(log) : HasGap(missing_pincodes[log[k].idx])
    /\ LoopOver =>
          \A p \in TablePincodes : (CallsFor("resolve", p) # { }) <=> HasGap(p)

\* the run is over; a row with the four key fields but no url and no place_name caused
\* no call, a row with a gap was resolved and extracted
C6_Witness ==
    /\ pc = "done"
    /\ \E n \in 1..Len(existing_csv) :
          /\ \A f \in KeyFields : ~IsBlankText(existing_csv[n][f])
          /\ existing_csv[n].url = << >> /\ existing_csv[n].place_name = << >>
          /\ CallsFor("resolve", existing_csv[n].pincode) = { }
    /\ \E n \in 1..Len(existing_csv) :
          /\ existing_csv[n].population = << " " >>
          /\ CallsFor("resolve", existing_csv[n].pincode) # { }
          /\ CallsFor("extract", existing_csv[n].pincode) # { }

\* C7 as claimed: each postal code is resolved at most once and extracted at most once
\* per run, the calls for one entry all come before the calls for the next, and exactly
\* one record per processed code is in the result buffer.
C7_Claimed ==
    /\ \A p \in TablePincodes :
          /\ Cardinality(CallsFor("resolve", p)) <= 1
          /\ Cardinality(CallsFor("extract", p)) <= 1
          /\ LoopOver /\ CallsFor("resolve", p) # { } =>
                Cardinality({ n \in 1..Len(new_data) : new_data[n].pincode = p }) = 1
    /\ \A k \in 1..(Len(log) - 1) : log[k].idx <= log[k + 1].idx

\* C9 as claimed: a delay follows the Extractor call of an entry exactly when the
\* Resolver returned a URL and the fetch succeeded.
C9_Claimed ==
    \A j \in 1..Len(missing_pincodes) :
        EntryDone(j) =>
            ( (Calls("sleep", j) # { }) <=>
              /\ \E k \in Calls("resolve", j) : log[k].ok
              /\ \E k \in Calls("extract", j) : log[k].ok )

\* C9 amended: a delay follows the Extractor call of an entry, before the next entry's
\* Resolver call, exactly when the Resolver returned a URL for it, whether the fetch
\* succeeded or failed; there is no delay for an entry that was not resolved.
C9_DelayAfterEveryExtract ==
    /\ \A j \in 1..Len(missing_pincodes) :
          EntryDone(j) =>
              /\ (Calls("sleep", j) # { }) <=> (\E k \in Calls("resolve", j) : log[k].ok)
              /\ Cardinality(Calls("sleep", j)) <= 1
    /\ \A k \in 1..Len(log) :
          /\ log[k].op = "extract" =>
                IF k = Len(log) THEN pc = "sleep"
                ELSE log[k + 1] = [op |-> "sleep", idx |-> log[k].idx, ok |-> TRUE]
          /\ log[k].op = "sleep" =>
                /\ k > 1 /\ log[k - 1].op = "extract" /\ log[k - 1].idx = log[k].idx
                /\ \A m \in 1..Len(log) :
                      (log[m].op = "resolve" /\ log[m].idx > log[k].idx) => m > k
          /\ (log[k].op = "resolve" /\ ~log[k].ok) => Calls("sleep", log[k].idx) = { }

\* an entry whose fetch failed was followed by a delay, then the next entry was resolved
C9_Witness ==
    \E k \in 1..Len(log) :
        /\ log[k].op = "extract" /\ ~log[k].ok
        /\ k + 2 <= Len(log)
        /\ log[k + 1].op = "sleep" /\ log[k + 1].idx = log[k].idx
        /\ log[k + 2].op = "resolve" /\ log[k + 2].idx = log[k].idx + 1

=============================================================================
